---- MODULE Spec2Model ----
(***************************************************************************)
(* The Minesweeper board engine of src/minesweeper.js (classes CellState,   *)
(* Cell, Board) and the console driver start().                            *)
(*                                                                         *)
(* The Board object is the record `board`; its fields carry the names of    *)
(* the private fields of the class without the "#_" prefix.  Every method   *)
(* is an operator from a board record to a board record, and every public   *)
(* method is called by one action.  Math.random() is a nondeterministic     *)
(* choice, new Date() reads the variable `now`.                            *)
(***************************************************************************)
EXTENDS Integers, FiniteSets, Sequences, TLC

VARIABLES board, now, firstMove, pc

vars == <<board, now, firstMove, pc>>

(* ------------------------------ bounds --------------------------------- *)
MaxRows == 2
MaxCols == 3
MaxCells == 6
MaxMines == 2
MaxFlags == 1
MaxClock == 2

(* null of #_startTime / #_endTime; real timestamps are milliseconds >= 0 *)
Null == -1

Min(a, b) == IF a < b THEN a ELSE b

(* a function evaluated once on its whole domain rather than at every use *)
Tabulated(f) == f @@ << >>

(* Difficulty(name, rows, cols, mines): the custom boards the engine must   *)
(* support, rows >= 1, cols >= 1, 0 <= mines < rows*cols.  The engine       *)
(* treats rows and columns alike, so of a board and its transpose the one   *)
(* with rows <= cols is followed.                                          *)
Difficulty ==
  { d \in (1..MaxRows) \X (1..MaxCols) \X (0..MaxMines) :
      d[1] <= d[2] /\ d[1] * d[2] <= MaxCells /\ d[3] < d[1] * d[2] }

(* ------------------------------ CellState ------------------------------ *)
UNOPENED == "X"
FLAGGED == "F"
MINE == "M"
NO_ADJACENT == " "

(* CellState.#formatAdjacent(CellState.ADJACENT, value): the template's     *)
(* {0} replaced by the decimal digits of value (1..8 on a board)           *)
formatAdjacent(value) ==
  <<"1", "2", "3", "4", "5", "6", "7", "8">>[value]

(* new CellState() *)
NewCellState ==
  [ isMine |-> FALSE, isFlagged |-> FALSE, isOpened |-> FALSE,
    adjacentMines |-> 0, currentState |-> UNOPENED, defaultState |-> NO_ADJACENT ]

(* set isMine(value) *)
SetIsMine(s, value) ==
  [ isMine |-> value,
    defaultState |-> IF value THEN MINE ELSE NO_ADJACENT,
    currentState |-> UNOPENED,
    adjacentMines |-> 0,
    isOpened |-> FALSE,
    isFlagged |-> FALSE ]

(* set isFlagged(value) *)
SetIsFlagged(s, value) ==
  IF s.isOpened THEN s
  ELSE [ s EXCEPT !.isFlagged = value,
                  !.currentState = IF value THEN FLAGGED ELSE UNOPENED ]

(* set isOpened that also takes the flag off the cell *)
SetIsOpenedClearsFlag(s, value) ==
  [ s EXCEPT !.isOpened = value,
             !.isFlagged = FALSE,
             !.currentState = IF value THEN s.defaultState ELSE UNOPENED ]

(* set isOpened that also clears the adjacency count, as set isMine does *)
SetIsOpenedClearsAdjacent(s, value) ==
  [ s EXCEPT !.isOpened = value,
             !.adjacentMines = 0,
             !.currentState = IF value THEN s.defaultState ELSE UNOPENED ]

(* set isOpened(value) *)
SetIsOpened(s, value) ==
  [ s EXCEPT !.isOpened = value,
             !.currentState = IF value THEN s.defaultState ELSE UNOPENED ]

(* set adjacentMines that stores the count and leaves the display alone *)
SetAdjacentMinesKeepsDefault(s, value) ==
  IF s.isMine THEN s
  ELSE IF value < 0 THEN s
  ELSE [ s EXCEPT !.adjacentMines = value ]

(* set adjacentMines(value) *)
SetAdjacentMines(s, value) ==
  IF s.isMine THEN s
  ELSE IF value < 0 THEN s
  ELSE LET d == IF value > 0 THEN formatAdjacent(value) ELSE NO_ADJACENT
       IN  [ s EXCEPT !.adjacentMines = value,
                      !.defaultState = d,
                      !.currentState = IF s.isOpened THEN d ELSE s.currentState ]

(* -------------------------------- Board -------------------------------- *)
(* Board.#_directions *)
directions ==
  << <<-1, -1>>, <<-1, 0>>, <<-1, 1>>, <<0, -1>>,
     <<0, 1>>, <<1, -1>>, <<1, 0>>, <<1, 1>> >>

(* the coordinates of the grid built by #init *)
Positions(b) == (0 .. b.rows - 1) \X (0 .. b.cols - 1)

(* the range test of startGame, openCell and toggleFlag *)
OutOfRange(b, row, col) ==
  row < 0 \/ row >= b.rows \/ col < 0 \/ col >= b.cols

(* #init(): a fresh Cell (with a fresh CellState) at every position *)
init(b) ==
  [ b EXCEPT !.cells = [ p \in Positions(b) |-> NewCellState ] ]

(* reset that keeps the flag counter *)
resetKeepsFlags(b) ==
  init([ b EXCEPT !.minesList = {},
                  !.openedCells = 0,
                  !.isGameOver = FALSE,
                  !.isGameWon = FALSE,
                  !.startTime = Null,
                  !.endTime = Null ])

(* reset() *)
reset(b) ==
  init([ b EXCEPT !.minesList = {},
                  !.flags = 0,
                  !.openedCells = 0,
                  !.isGameOver = FALSE,
                  !.isGameWon = FALSE,
                  !.startTime = Null,
                  !.endTime = Null ])

(* new Board(difficulty) *)
NewBoard(d) ==
  reset([ rows |-> d[1], cols |-> d[2], mines |-> d[3],
          cells |-> << >>, minesList |-> {},
          flags |-> 0, openedCells |-> 0,
          isGameOver |-> FALSE, isGameWon |-> FALSE,
          startTime |-> Null, endTime |-> Null ])

(* #getAdjacentCells(row, col): the in-bounds neighbours *)
getAdjacentCells(b, row, col) ==
  { p \in Positions(b) :
      \E i \in 1..8 : p = <<row + directions[i][1], col + directions[i][2]>> }

(* excludeCellsChoices with the initial cell left out of the excluded set *)
excludeCellsChoicesWithoutInitial(b, initialRow, initialCol) ==
  LET adjacentCells == getAdjacentCells(b, initialRow, initialCol)
      n == Cardinality(adjacentCells)
  IN  { T \in SUBSET adjacentCells :
          \E numberOfAdjacentCells \in 1 .. (IF n = 0 THEN 1 ELSE n) :
             Cardinality(T) = Min(numberOfAdjacentCells, n) }

(* #placeMines, lines 308-313: the initial cell and the first               *)
(* numberOfAdjacentCells of the shuffled neighbours; the cut is 1..length,  *)
(* and 1 on a cell without neighbours, where the slice is empty            *)
excludeCellsChoices(b, initialRow, initialCol) ==
  LET adjacentCells == getAdjacentCells(b, initialRow, initialCol)
      n == Cardinality(adjacentCells)
  IN  { {<<initialRow, initialCol>>} \cup S :
          S \in { T \in SUBSET adjacentCells :
                    \E numberOfAdjacentCells \in 1 .. (IF n = 0 THEN 1 ELSE n) :
                       Cardinality(T) = Min(numberOfAdjacentCells, n) } }

(* #buildCellsListWithoutMines(excludeCells) *)
buildCellsListWithoutMines(b, excludeCells) ==
  Positions(b) \ excludeCells

(* cell.state.adjacentMines++ (line 340), n times: each reads the getter   *)
(* and calls the setter with the value plus one                            *)
RECURSIVE incrementAdjacentMines(_, _)
incrementAdjacentMines(s, n) ==
  IF n = 0 THEN s
  ELSE incrementAdjacentMines(SetAdjacentMines(s, s.adjacentMines + 1), n - 1)

(* calculateAdjacentMines over the four orthogonal directions only *)
calculateAdjacentMinesOrthogonal(b) ==
  LET landing(p) ==
        { m \in b.minesList :
            \E i \in {2, 4, 5, 7} :
              p = <<m[1] + directions[i][1], m[2] + directions[i][2]>> }
  IN  [ b EXCEPT !.cells = [ p \in Positions(b) |->
                               IF b.cells[p].isMine THEN b.cells[p]
                               ELSE incrementAdjacentMines(b.cells[p],
                                                           Cardinality(landing(p))) ] ]

(* #calculateAdjacentMines(): the double loop visits every pair of a mine   *)
(* of #_minesList and a direction; a pair that lands in bounds on a cell    *)
(* that is not a mine increments that cell.  The increments commute, so     *)
(* they are grouped by the cell they land on; a mine lands on a cell by at  *)
(* most one direction.                                                     *)
calculateAdjacentMines(b) ==
  LET landing(p) ==
        { m \in b.minesList :
            \E i \in 1..8 :
              p = <<m[1] + directions[i][1], m[2] + directions[i][2]>> }
  IN  [ b EXCEPT !.cells = [ p \in Positions(b) |->
                               IF b.cells[p].isMine THEN b.cells[p]
                               ELSE incrementAdjacentMines(b.cells[p],
                                                           Cardinality(landing(p))) ] ]

(* #placeMines, lines 308-316: cellList is the cells left after the        *)
(* exclusion and, after the shuffle, the cells that cellList[0 .. mines-1]  *)
(* can name are any `mines` of them, or all of them when there are fewer    *)
placeMinesChoices(b, initialRow, initialCol) ==
  UNION { LET cellList == buildCellsListWithoutMines(b, excludeCells)
          IN  { M \in SUBSET cellList :
                  Cardinality(M) = Min(b.mines, Cardinality(cellList)) } :
          excludeCells \in excludeCellsChoices(b, initialRow, initialCol) }

(* placeMinesChoices depends on the board's size and mine count only; it    *)
(* is tabulated once for every difficulty and initial cell                 *)
placeMinesTable ==
  Tabulated([ d \in Difficulty |->
      LET b == [ rows |-> d[1], cols |-> d[2], mines |-> d[3] ]
      IN  Tabulated([ p \in Positions(b) |-> placeMinesChoices(b, p[1], p[2]) ]) ])

mineCellsChoices(b, initialRow, initialCol) ==
  placeMinesTable[<<b.rows, b.cols, b.mines>>][<<initialRow, initialCol>>]

(* #placeMines, line 319: with fewer than `mines` cells in cellList the     *)
(* loop reaches cellList[cellList.length], which is undefined, and          *)
(* destructuring undefined throws a TypeError                              *)
placeMinesThrows(b, mineCells) ==
  Cardinality(mineCells) < b.mines

(* #placeMines(initialRow, initialCol) with the random choices made:        *)
(* mineCells are the cells the loop of lines 318-323 reaches.  #_minesList  *)
(* is only ever iterated, with effects that commute, so it is kept as a     *)
(* set.  When the loop throws, the mines placed so far stay and the         *)
(* adjacency counts are not computed.                                      *)
placeMines(b, mineCells) ==
  LET placed ==
        [ b EXCEPT !.cells = [ p \in Positions(b) |->
                                 IF p \in mineCells THEN SetIsMine(b.cells[p], TRUE)
                                 ELSE b.cells[p] ],
                   !.minesList = b.minesList \cup mineCells ]
  IN  IF placeMinesThrows(b, mineCells) THEN placed
      ELSE calculateAdjacentMines(placed)

(* startGame(row, col) throws a RangeError *)
startGameThrowsRange(b, row, col) == OutOfRange(b, row, col)

(* startGame(row, col), the board it leaves (also when it throws) *)
startGame(b, row, col, mineCells, date) ==
  IF OutOfRange(b, row, col) THEN b
  ELSE LET placed == placeMines(reset(b), mineCells)
       IN  IF placeMinesThrows(b, mineCells) THEN placed
           ELSE [ placed EXCEPT !.startTime = date ]

(* openAllMines that counts the mines it reveals as opened cells *)
openAllMinesCounted(b) ==
  [ b EXCEPT !.cells = [ p \in Positions(b) |->
                           IF p \in b.minesList THEN SetIsOpened(b.cells[p], TRUE)
                           ELSE b.cells[p] ],
             !.openedCells = @ + Cardinality(b.minesList) ]

(* openAllMines that leaves the flagged mines closed *)
openAllMinesUnflagged(b) ==
  [ b EXCEPT !.cells = [ p \in Positions(b) |->
                           IF p \in b.minesList /\ ~b.cells[p].isFlagged
                             THEN SetIsOpened(b.cells[p], TRUE)
                             ELSE b.cells[p] ] ]

(* #openAllMines() *)
openAllMines(b) ==
  [ b EXCEPT !.cells = [ p \in Positions(b) |->
                           IF p \in b.minesList THEN SetIsOpened(b.cells[p], TRUE)
                           ELSE b.cells[p] ] ]

(* openCell(row, col) throws a RangeError: the test comes after the         *)
(* game-ended return of line 347                                           *)
openCellThrows(b, row, col) ==
  ~(b.isGameOver \/ b.isGameWon) /\ OutOfRange(b, row, col)

(* checkWon that waits for every cell of the grid, mines included *)
checkWonAllCells(b) ==
  IF b.openedCells = b.rows * b.cols
    THEN [ b EXCEPT !.isGameWon = TRUE ]
    ELSE b

(* openCell, lines 369-371 *)
checkWon(b) ==
  IF b.openedCells = (b.rows * b.cols) - b.mines
    THEN [ b EXCEPT !.isGameWon = TRUE ]
    ELSE b

(* openCell(row, col) and #openAdjacentCells(row, col) call each other.     *)
(* The calls are run on an explicit call stack: m.board is the board and    *)
(* m.stack the activations of openCell that are inside                      *)
(* #openAdjacentCells, innermost first, each <<row, col, i>> with i the     *)
(* next direction of its loop.                                             *)

(* enterOpenCell without the return for an opened cell (line 353) *)
enterOpenCellReopens(m, row, col, date) ==
  LET b == m.board
  IN  IF b.isGameOver \/ b.isGameWon THEN m
      ELSE IF OutOfRange(b, row, col) THEN m
      ELSE IF b.cells[<<row, col>>].isMine
        THEN [ m EXCEPT !.board =
                 openAllMines([ b EXCEPT !.isGameOver = TRUE, !.endTime = date ]) ]
      ELSE LET opened ==
                 [ b EXCEPT !.cells[<<row, col>>] = SetIsOpened(@, TRUE),
                            !.openedCells = @ + 1 ]
           IN  IF opened.cells[<<row, col>>].adjacentMines = 0
                 THEN [ board |-> opened, stack |-> <<<<row, col, 1>>>> \o m.stack ]
                 ELSE [ m EXCEPT !.board = checkWon(opened) ]

(* enterOpenCell without the return for an ended game (line 347) *)
enterOpenCellAfterEnd(m, row, col, date) ==
  LET b == m.board
  IN  IF OutOfRange(b, row, col) THEN m
      ELSE IF b.cells[<<row, col>>].isOpened THEN m
      ELSE IF b.cells[<<row, col>>].isMine
        THEN [ m EXCEPT !.board =
                 openAllMines([ b EXCEPT !.isGameOver = TRUE, !.endTime = date ]) ]
      ELSE LET opened ==
                 [ b EXCEPT !.cells[<<row, col>>] = SetIsOpened(@, TRUE),
                            !.openedCells = @ + 1 ]
           IN  IF opened.cells[<<row, col>>].adjacentMines = 0
                 THEN [ board |-> opened, stack |-> <<<<row, col, 1>>>> \o m.stack ]
                 ELSE [ m EXCEPT !.board = checkWon(opened) ]

(* openCell, lines 347-367: an activation from its entry to its first       *)
(* return, or to its call of #openAdjacentCells (lines 376-377 included),   *)
(* which pushes it on the stack                                            *)
enterOpenCell(m, row, col, date) ==
  LET b == m.board
  IN  IF b.isGameOver \/ b.isGameWon THEN m
      ELSE IF OutOfRange(b, row, col) THEN m
      ELSE IF b.cells[<<row, col>>].isOpened THEN m
      ELSE IF b.cells[<<row, col>>].isMine
        THEN [ m EXCEPT !.board =
                 openAllMines([ b EXCEPT !.isGameOver = TRUE, !.endTime = date ]) ]
      ELSE LET opened ==
                 [ b EXCEPT !.cells[<<row, col>>] = SetIsOpened(@, TRUE),
                            !.openedCells = @ + 1 ]
           IN  IF opened.cells[<<row, col>>].adjacentMines = 0
                 THEN [ board |-> opened, stack |-> <<<<row, col, 1>>>> \o m.stack ]
                 ELSE [ m EXCEPT !.board = checkWon(opened) ]

(* stepOpenAdjacentCells without the test for a flagged neighbour *)
stepOpenAdjacentCellsThroughFlags(m, date) ==
  LET b == m.board
      row == Head(m.stack)[1]
      col == Head(m.stack)[2]
      i == Head(m.stack)[3]
  IN  IF i > 8 THEN [ board |-> checkWon(b), stack |-> Tail(m.stack) ]
      ELSE LET newRow == row + directions[i][1]
               newCol == col + directions[i][2]
               next == [ m EXCEPT !.stack = <<<<row, col, i + 1>>>> \o Tail(m.stack) ]
           IN  IF newRow < 0 \/ newRow >= b.rows THEN next
               ELSE IF newCol < 0 \/ newCol >= b.cols THEN next
               ELSE IF b.cells[<<newRow, newCol>>].isOpened THEN next
               ELSE IF b.cells[<<newRow, newCol>>].isMine THEN next
               ELSE enterOpenCell(next, newRow, newCol, date)

(* stepOpenAdjacentCells without the test for a mined neighbour *)
stepOpenAdjacentCellsThroughMines(m, date) ==
  LET b == m.board
      row == Head(m.stack)[1]
      col == Head(m.stack)[2]
      i == Head(m.stack)[3]
  IN  IF i > 8 THEN [ board |-> checkWon(b), stack |-> Tail(m.stack) ]
      ELSE LET newRow == row + directions[i][1]
               newCol == col + directions[i][2]
               next == [ m EXCEPT !.stack = <<<<row, col, i + 1>>>> \o Tail(m.stack) ]
           IN  IF newRow < 0 \/ newRow >= b.rows THEN next
               ELSE IF newCol < 0 \/ newCol >= b.cols THEN next
               ELSE IF b.cells[<<newRow, newCol>>].isOpened
                       \/ b.cells[<<newRow, newCol>>].isFlagged THEN next
               ELSE enterOpenCell(next, newRow, newCol, date)

(* #openAdjacentCells, lines 379-391: one turn of the loop of the innermost *)
(* activation, or, after the eighth direction, its return to openCell,      *)
(* which goes on with lines 369-371 and returns                            *)
stepOpenAdjacentCells(m, date) ==
  LET b == m.board
      row == Head(m.stack)[1]
      col == Head(m.stack)[2]
      i == Head(m.stack)[3]
  IN  IF i > 8 THEN [ board |-> checkWon(b), stack |-> Tail(m.stack) ]
      ELSE LET newRow == row + directions[i][1]
               newCol == col + directions[i][2]
               next == [ m EXCEPT !.stack = <<<<row, col, i + 1>>>> \o Tail(m.stack) ]
           IN  IF newRow < 0 \/ newRow >= b.rows THEN next
               ELSE IF newCol < 0 \/ newCol >= b.cols THEN next
               ELSE IF b.cells[<<newRow, newCol>>].isOpened
                       \/ b.cells[<<newRow, newCol>>].isFlagged THEN next
               ELSE IF b.cells[<<newRow, newCol>>].isMine THEN next
               ELSE enterOpenCell(next, newRow, newCol, date)

(* the machine run for at most n steps, until the stack is empty *)
RECURSIVE runOpenCell(_, _, _)
runOpenCell(m, n, date) ==
  IF n = 0 \/ m.stack = << >> THEN m
  ELSE IF n = 1 THEN stepOpenAdjacentCells(m, date)
  ELSE runOpenCell(runOpenCell(m, n \div 2, date), n - (n \div 2), date)

(* every activation takes at most nine steps (eight directions and the      *)
(* return) and every cell is opened by at most one activation              *)
MaxSteps(b) == 9 * b.rows * b.cols

(* openCell(row, col), the board it leaves (also when it throws) *)
openCell(b, row, col, date) ==
  runOpenCell(enterOpenCell([ board |-> b, stack |-> << >> ], row, col, date),
              MaxSteps(b), date).board

(* toggleFlag(row, col) throws a RangeError *)
toggleFlagThrows(b, row, col) == OutOfRange(b, row, col)

(* toggleFlag without the return for an ended game *)
toggleFlagAfterEnd(b, row, col) ==
  IF OutOfRange(b, row, col) THEN b
  ELSE LET cell == b.cells[<<row, col>>]
       IN  IF cell.isOpened THEN b
           ELSE LET flagged == SetIsFlagged(cell, ~cell.isFlagged)
                IN  [ b EXCEPT !.cells[<<row, col>>] = flagged,
                               !.flags = @ + (IF flagged.isFlagged THEN 1 ELSE -1) ]

(* toggleFlag that counts every toggle as a flag set *)
toggleFlagCountsUp(b, row, col) ==
  IF OutOfRange(b, row, col) THEN b
  ELSE IF b.isGameOver \/ b.isGameWon THEN b
  ELSE LET cell == b.cells[<<row, col>>]
       IN  IF cell.isOpened THEN b
           ELSE [ b EXCEPT !.cells[<<row, col>>] = SetIsFlagged(cell, ~cell.isFlagged),
                           !.flags = @ + 1 ]

(* toggleFlag that covers an opened cell again instead of returning *)
toggleFlagClosesOpened(b, row, col) ==
  IF OutOfRange(b, row, col) THEN b
  ELSE IF b.isGameOver \/ b.isGameWon THEN b
  ELSE LET cell == b.cells[<<row, col>>]
       IN  IF cell.isOpened
             THEN [ b EXCEPT !.cells[<<row, col>>] = SetIsOpened(cell, FALSE) ]
           ELSE LET flagged == SetIsFlagged(cell, ~cell.isFlagged)
                IN  [ b EXCEPT !.cells[<<row, col>>] = flagged,
                               !.flags = @ + (IF flagged.isFlagged THEN 1 ELSE -1) ]

(* toggleFlag(row, col), the board it leaves (also when it throws) *)
toggleFlag(b, row, col) ==
  IF OutOfRange(b, row, col) THEN b
  ELSE IF b.isGameOver \/ b.isGameWon THEN b
  ELSE LET cell == b.cells[<<row, col>>]
       IN  IF cell.isOpened THEN b
           ELSE LET flagged == SetIsFlagged(cell, ~cell.isFlagged)
                IN  [ b EXCEPT !.cells[<<row, col>>] = flagged,
                               !.flags = @ + (IF flagged.isFlagged THEN 1 ELSE -1) ]

(* #gameTimeInSecond(); Date.getTime() is in milliseconds and the           *)
(* difference is never negative, so Math.floor is the integer quotient     *)
gameTimeInSecond(b, date) ==
  IF b.startTime = Null THEN 0
  ELSE LET endTime == IF b.endTime = Null THEN date ELSE b.endTime
       IN  (endTime - b.startTime) \div 1000

(* #getRemainingMines() *)
getRemainingMines(b) == b.mines - b.flags

(* #getGameStatus() *)
getGameStatus(b) ==
  [ isGameOver |-> b.isGameOver, isGameWon |-> b.isGameWon ]

(* #getGameStats() *)
getGameStats(b, date) ==
  [ flags |-> b.flags,
    openedCells |-> b.openedCells,
    remainingMines |-> getRemainingMines(b),
    gameTimeInSecond |-> gameTimeInSecond(b, date) ]

(* getGameInfo(); the board is given by the display value of every cell *)
getGameInfo(b, date) ==
  [ status |-> getGameStatus(b),
    stats |-> getGameStats(b, date),
    board |-> [ p \in Positions(b) |-> b.cells[p].currentState ] ]

(* ------------------------------ the calls ------------------------------ *)
(* the coordinates a caller passes: every cell of the grid and one          *)
(* coordinate beyond each of the four edges                                *)
Coordinates(b) ==
  Positions(b) \cup { <<-1, 0>>, <<b.rows, 0>>, <<0, -1>>, <<0, b.cols>> }

Init ==
  /\ \E d \in Difficulty : board = NewBoard(d)
  /\ now = 0
  /\ firstMove = TRUE
  /\ pc = "play"

(* board.reset() *)
Reset ==
  /\ board' = reset(board)
  /\ UNCHANGED <<now, firstMove, pc>>

(* the mine cells the in-range calls startGame(row, col) can choose, each   *)
(* with an initial cell that allows the choice; tabulated once for every    *)
(* difficulty                                                              *)
startGameTable ==
  Tabulated([ d \in Difficulty |->
      LET b == [ rows |-> d[1], cols |-> d[2], mines |-> d[3] ]
      IN  { [ initial |-> CHOOSE p \in Positions(b) :
                            mineCells \in mineCellsChoices(b, p[1], p[2]),
              mineCells |-> mineCells ] :
            mineCells \in UNION { mineCellsChoices(b, p[1], p[2]) : p \in Positions(b) } } ])

startGameChoices(b) ==
  startGameTable[<<b.rows, b.cols, b.mines>>]

(* board.startGame(row, col).  The board an in-range call leaves depends on *)
(* (row, col) only through the mine cells it can choose, so the call is     *)
(* taken once for each choice of mine cells, with an initial cell that      *)
(* allows the choice.  An out-of-range call throws a RangeError and leaves  *)
(* the board as it was.                                                    *)
StartGame ==
  \E c \in startGameChoices(board) :
    /\ board' = startGame(board, c.initial[1], c.initial[2], c.mineCells, now)
    /\ UNCHANGED <<now, firstMove, pc>>

(* board.openCell(row, col) *)
OpenCell ==
  \E p \in Coordinates(board) :
    /\ board' = openCell(board, p[1], p[2], now)
    /\ UNCHANGED <<now, firstMove, pc>>

(* the model follows games with at most MaxFlags flags set *)
FlagAllowed(b, p) ==
  toggleFlag(b, p[1], p[2]).flags <= MaxFlags

(* board.toggleFlag(row, col) *)
ToggleFlag ==
  \E p \in Coordinates(board) :
    /\ FlagAllowed(board, p)
    /\ board' = toggleFlag(board, p[1], p[2])
    /\ UNCHANGED <<now, firstMove, pc>>

(* any caller of the engine API *)
Next == Reset \/ StartGame \/ OpenCell \/ ToggleFlag

Spec == Init /\ [][Next]_vars

(* time passes between two calls: the clock read by new Date() advances     *)
(* by half a second, MaxClock times at most                                *)
Tick ==
  /\ now < MaxClock * 500
  /\ now' = now + 500
  /\ UNCHANGED <<board, firstMove, pc>>

(* any caller of the engine API, with the time that passes between calls *)
NextClock == Next \/ Tick

SpecClock == Init /\ [][NextClock]_vars

(* ------------------------------ the driver ----------------------------- *)
(* start(), lines 544-574: one turn of the game loop with the input row,    *)
(* col (already zero-based) and action.  An out-of-range input is refused   *)
(* and the turn repeated; the first accepted turn starts the game; an       *)
(* error startGame throws is not caught and ends the process.              *)
DriverAction(b, p, action) ==
  /\ firstMove' = FALSE
  /\ pc' = pc
  /\ IF action = 1 THEN board' = openCell(b, p[1], p[2], now)
     ELSE IF action = 2 THEN /\ FlagAllowed(b, p)
                             /\ board' = toggleFlag(b, p[1], p[2])
     ELSE board' = b

DriverMove ==
  /\ pc = "play"
  /\ ~board.isGameWon /\ ~board.isGameOver
  /\ \E p \in Coordinates(board), action \in {1, 2, 3} :
       IF OutOfRange(board, p[1], p[2])
         THEN UNCHANGED <<board, firstMove, pc>>
       ELSE IF firstMove
         THEN \E mineCells \in mineCellsChoices(board, p[1], p[2]) :
                IF placeMinesThrows(board, mineCells)
                  THEN /\ board' = startGame(board, p[1], p[2], mineCells, now)
                       /\ pc' = "crashed"
                       /\ UNCHANGED firstMove
                  ELSE DriverAction(startGame(board, p[1], p[2], mineCells, now),
                                    p, action)
       ELSE DriverAction(board, p, action)
  /\ UNCHANGED now

(* start(), lines 576-582 and 501-542: the game has ended and the player    *)
(* answers "y"; a new Board is made for the difficulty chosen in the menu   *)
DriverPlayAgain ==
  /\ pc = "play"
  /\ board.isGameWon \/ board.isGameOver
  /\ \E d \in Difficulty : board' = NewBoard(d)
  /\ firstMove' = TRUE
  /\ UNCHANGED <<now, pc>>

(* start(), lines 582-585: the player does not play again *)
DriverExit ==
  /\ pc = "play"
  /\ board.isGameWon \/ board.isGameOver
  /\ pc' = "exited"
  /\ UNCHANGED <<board, now, firstMove>>

NextDriver == DriverMove \/ DriverPlayAgain \/ DriverExit

SpecDriver == Init /\ [][NextDriver]_vars

(* ------------------------------ the claims ----------------------------- *)
MinedCells(b) == { p \in Positions(b) : b.cells[p].isMine }

OpenedCells(b) == { p \in Positions(b) : b.cells[p].isOpened }

(* startGame has completed since the last reset *)
Started(b) == b.startTime # Null

Ended(b) == b.isGameOver \/ b.isGameWon

(* C1: for every board and every in-range (r, c), whatever mine placement   *)
(* chooses, right after startGame(r, c) the cell (r, c) is not a mine and   *)
(* exactly `mines` cells are mines.                                        *)
C1_StartCellSafeAndMineCount ==
  \A p \in Positions(board) :
    \A mineCells \in mineCellsChoices(board, p[1], p[2]) :
      LET after == startGame(board, p[1], p[2], mineCells, now)
      IN  /\ ~after.cells[p].isMine
          /\ Cardinality(MinedCells(after)) = board.mines

(* C2: startGame(r, c) with (r, c) in range never fails: whatever cluster   *)
(* of neighbours is excluded, at least `mines` candidate cells are left     *)
(* and mine placement throws nothing.                                      *)
C2_PlacementNeverThrows ==
  \A p \in Positions(board) :
    \A excludeCells \in excludeCellsChoices(board, p[1], p[2]) :
      /\ Cardinality(buildCellsListWithoutMines(board, excludeCells)) >= board.mines
      /\ \A mineCells \in mineCellsChoices(board, p[1], p[2]) :
           ~placeMinesThrows(board, mineCells)

(* C3, as claimed: in a game played through the driver the first cell       *)
(* opened is never a mine: a mine is only ever opened after some cell       *)
(* that is not a mine.                                                     *)
C3_FirstOpenedNeverMine ==
  (\E p \in Positions(board) : board.cells[p].isOpened /\ board.cells[p].isMine)
    => (\E q \in Positions(board) : board.cells[q].isOpened /\ ~board.cells[q].isMine)

(* C3, amended: the driver's first move, which starts the game on the cell  *)
(* it names, never loses, and no cell it opens is a mine; so the first      *)
(* cell opened is not a mine when the first move is an open.               *)
C3_FirstMoveOpensNoMine ==
  [][ (firstMove /\ ~firstMove')
        => /\ ~board'.isGameOver
           /\ \A p \in Positions(board') :
                board'.cells[p].isOpened => ~board'.cells[p].isMine ]_vars

(* a game the driver's first move has started by opening a cell next to a   *)
(* mine                                                                    *)
C3_Witness ==
  /\ pc = "play" /\ ~firstMove
  /\ Started(board) /\ board.mines > 0
  /\ board.openedCells = 1 /\ board.flags = 0
  /\ ~board.isGameOver

(* C4, as claimed: in every reachable state, also after a loss, openedCells *)
(* is the number of cells with isOpened.                                   *)
C4_OpenedCountIsOpenedCells ==
  board.openedCells = Cardinality(OpenedCells(board))

(* C4, amended: in every reachable state openedCells is the number of       *)
(* opened cells that are not mines, which is the number of opened cells     *)
(* as long as the game is not lost.                                        *)
C4_OpenedCountIsOpenedSafeCells ==
  /\ board.openedCells = Cardinality(OpenedCells(board) \ MinedCells(board))
  /\ ~board.isGameOver => board.openedCells = Cardinality(OpenedCells(board))

(* a lost game with an opened cell that is not a mine: the revealed mines   *)
(* are opened and not counted                                              *)
C4_Witness ==
  /\ board.isGameOver
  /\ board.openedCells > 0
  /\ Cardinality(OpenedCells(board)) > board.openedCells

(* C5: in a started game, after every call, isGameWon holds exactly when    *)
(* openedCells = rows*cols - mines and the game is not lost, and it holds   *)
(* as soon as every cell that is not a mine is opened.                     *)
C5_WonIffAllSafeOpened ==
  Started(board) =>
    /\ board.isGameWon <=>
         (board.openedCells = board.rows * board.cols - board.mines
            /\ ~board.isGameOver)
    /\ (Positions(board) \ MinedCells(board)) \subseteq OpenedCells(board)
         => board.isGameWon

(* a game with mines won with a flag still on the board *)
C5_Witness ==
  /\ Started(board) /\ board.isGameWon
  /\ board.mines > 0 /\ board.openedCells > 1
  /\ board.flags > 0

(* the target of openCell(row, col) is a mine that a game not yet ended     *)
(* has not opened                                                          *)
OpensMine(b, p) ==
  /\ ~OutOfRange(b, p[1], p[2])
  /\ ~Ended(b)
  /\ b.cells[p].isMine
  /\ ~b.cells[p].isOpened

(* C6: isGameOver becomes true by openCell on an unopened mine of a game    *)
(* not yet ended, and by no other call; right after that call every mine,   *)
(* flagged or not, is opened and no other cell has changed its isOpened.    *)
C6_LostIffMineOpened ==
  /\ [] (\A p \in Coordinates(board) :
           LET after == openCell(board, p[1], p[2], now)
           IN  /\ (~board.isGameOver /\ after.isGameOver) <=> OpensMine(board, p)
               /\ OpensMine(board, p) =>
                    \A q \in Positions(board) :
                      IF after.cells[q].isMine
                        THEN after.cells[q].isOpened
                        ELSE after.cells[q].isOpened = board.cells[q].isOpened)
  /\ [][ (~board.isGameOver /\ board'.isGameOver)
           => \E p \in Positions(board) :
                /\ OpensMine(board, p)
                /\ board' = openCell(board, p[1], p[2], now) ]_vars

(* a lost game in which a flagged mine was revealed *)
C6_Witness ==
  /\ board.isGameOver
  /\ Cardinality(MinedCells(board)) > 1
  /\ \E p \in MinedCells(board) : board.cells[p].isFlagged /\ board.cells[p].isOpened
  /\ \E q \in Positions(board) : ~board.cells[q].isMine /\ ~board.cells[q].isOpened

(* C7: once the game is lost or won, openCell and toggleFlag on any cell    *)
(* (or coordinate) leave every field of the board as it is.                *)
C7_EndedBoardIsFrozen ==
  Ended(board) =>
    \A p \in Coordinates(board) :
      /\ openCell(board, p[1], p[2], now) = board
      /\ toggleFlag(board, p[1], p[2]) = board

(* a won game with a mine that is neither opened nor flagged, and a lost    *)
(* game with a cell still to open: calls that would act on an active game   *)
C7_Witness ==
  \/ /\ board.isGameWon
     /\ \E p \in MinedCells(board) : ~board.cells[p].isFlagged /\ ~board.cells[p].isOpened
  \/ /\ board.isGameOver
     /\ board.flags > 0
     /\ \E q \in Positions(board) : ~board.cells[q].isMine /\ ~board.cells[q].isOpened

(* C8: in every state of the board, startGame, openCell and toggleFlag      *)
(* each throw a RangeError for a coordinate outside the grid.              *)
C8_OutOfRangeAlwaysThrows ==
  \A p \in Coordinates(board) :
    OutOfRange(board, p[1], p[2]) =>
      /\ startGameThrowsRange(board, p[1], p[2])
      /\ openCellThrows(board, p[1], p[2])
      /\ toggleFlagThrows(board, p[1], p[2])

(* the reference closure of C9: the least set with p in which every cell    *)
(* with adjacentMines = 0 has all its neighbours that are unopened,         *)
(* unflagged and not mines on board b                                      *)
RECURSIVE closureFrom(_, _)
closureFrom(b, S) ==
  LET T == S \cup { q \in Positions(b) :
                      /\ ~b.cells[q].isOpened
                      /\ ~b.cells[q].isFlagged
                      /\ ~b.cells[q].isMine
                      /\ \E c \in S : /\ b.cells[c].adjacentMines = 0
                                      /\ q \in getAdjacentCells(b, c[1], c[2]) }
  IN  IF T = S THEN S ELSE closureFrom(b, T)

FloodClosure(b, p) == closureFrom(b, {p})

(* C9: in a started game not yet ended, openCell on an unopened cell that   *)
(* is not a mine newly opens exactly the reference closure of that cell,    *)
(* which is the cell alone when its adjacentMines is not 0.                *)
C9_OpensExactlyTheClosure ==
  (Started(board) /\ ~Ended(board)) =>
    \A p \in Positions(board) :
      (~board.cells[p].isOpened /\ ~board.cells[p].isMine) =>
        LET newly == OpenedCells(openCell(board, p[1], p[2], now)) \ OpenedCells(board)
        IN  /\ newly = FloodClosure(board, p)
            /\ board.cells[p].adjacentMines > 0 => newly = {p}

(* a started game in which a flood fill has opened a cell without adjacent  *)
(* mines and its numbered border, with cells left to open                  *)
C9_Witness ==
  /\ Started(board) /\ ~Ended(board) /\ board.mines > 0
  /\ board.openedCells >= 3
  /\ \E p \in OpenedCells(board) : board.cells[p].adjacentMines = 0
  /\ \E q \in OpenedCells(board) : board.cells[q].adjacentMines > 0
  /\ \E r \in Positions(board) : ~board.cells[r].isMine /\ ~board.cells[r].isOpened

(* C10: openCell on a cell that is not a mine opens no flagged cell but     *)
(* the cell itself and opens no mine; a mine is only opened in a lost       *)
(* game, by the reveal of all mines.                                       *)
C10_FloodSparesFlagsAndMines ==
  /\ \A p \in Positions(board) :
       ~board.cells[p].isMine =>
         LET after == openCell(board, p[1], p[2], now)
         IN  \A q \in Positions(board) :
               ((q # p /\ board.cells[q].isFlagged) \/ board.cells[q].isMine)
                 => after.cells[q].isOpened = board.cells[q].isOpened
  /\ \A q \in MinedCells(board) : board.cells[q].isOpened => board.isGameOver

(* a flood fill has stopped at a flag: an opened cell without adjacent      *)
(* mines has a neighbour that is flagged, not a mine, and still unopened    *)
C10_Witness ==
  \E p \in OpenedCells(board) :
    /\ Started(board) /\ board.mines > 0
    /\ board.cells[p].adjacentMines = 0
    /\ ~board.cells[p].isMine
    /\ \E q \in getAdjacentCells(board, p[1], p[2]) :
         /\ board.cells[q].isFlagged
         /\ ~board.cells[q].isMine
         /\ ~board.cells[q].isOpened

(* C11, as claimed: openCell on a flagged, unopened cell that is not a mine  *)
(* of a started game not yet ended either opens the cell and lowers flags   *)
(* by one, or leaves the cell unopened and flags as it was.                *)
C11_FlaggedOpenKeepsFlagsConsistent ==
  (Started(board) /\ ~Ended(board)) =>
    \A p \in Positions(board) :
      (board.cells[p].isFlagged /\ ~board.cells[p].isOpened /\ ~board.cells[p].isMine) =>
        LET after == openCell(board, p[1], p[2], now)
        IN  \/ after.cells[p].isOpened /\ after.flags = board.flags - 1
            \/ ~after.cells[p].isOpened /\ after.flags = board.flags

(* the display token the spec gives a cell with these four fields *)
displayValue(s) ==
  IF ~s.isOpened THEN (IF s.isFlagged THEN FLAGGED ELSE UNOPENED)
  ELSE IF s.isMine THEN MINE
  ELSE IF s.adjacentMines = 0 THEN NO_ADJACENT
  ELSE formatAdjacent(s.adjacentMines)

(* toggleFlag(b, p) has flipped the flag of the unopened cell p, moved      *)
(* flags by one the same way, and changed nothing else of b                *)
FlagFlipped(b, after, p) ==
  /\ after.cells[p].isFlagged = ~b.cells[p].isFlagged
  /\ after.flags = b.flags + (IF b.cells[p].isFlagged THEN -1 ELSE 1)
  /\ after.cells[p].isMine = b.cells[p].isMine
  /\ after.cells[p].isOpened = b.cells[p].isOpened
  /\ after.cells[p].adjacentMines = b.cells[p].adjacentMines
  /\ after.cells[p].defaultState = b.cells[p].defaultState
  /\ \A q \in Positions(b) \ {p} : after.cells[q] = b.cells[q]
  /\ [ after EXCEPT !.cells = b.cells, !.flags = b.flags ] = b

(* C12: on a game not yet ended, toggleFlag on an unopened cell flips its   *)
(* isFlagged, moves flags by +1 (set) or -1 (cleared) and changes nothing   *)
(* else, so a second toggle on the cell restores the board; on an opened    *)
(* cell it changes nothing.                                                *)
C12_ToggleFlagFlipsAndCounts ==
  ~Ended(board) =>
    \A p \in Positions(board) :
      LET after == toggleFlag(board, p[1], p[2])
      IN  IF board.cells[p].isOpened
            THEN after = board
            ELSE /\ FlagFlipped(board, after, p)
                 /\ toggleFlag(after, p[1], p[2]) = board

(* a started game not yet ended with a flag set, a cell opened and a cell   *)
(* neither opened nor flagged                                              *)
C12_Witness ==
  /\ Started(board) /\ ~Ended(board)
  /\ board.flags = 1
  /\ \E p \in Positions(board) : board.cells[p].isFlagged /\ ~board.cells[p].isOpened
  /\ \E q \in Positions(board) : board.cells[q].isOpened
  /\ \E r \in Positions(board) : ~board.cells[r].isOpened /\ ~board.cells[r].isFlagged

(* C13: in every reachable state the stored currentState of every cell is   *)
(* the token its (isMine, isOpened, isFlagged, adjacentMines) determine:    *)
(* the unopened or the flag marker when unopened, and when opened the mine  *)
(* marker, the blank for 0, or the digit.                                  *)
C13_DisplayIsFunctionOfFields ==
  \A p \in Positions(board) :
    board.cells[p].currentState = displayValue(board.cells[p])

(* a started game with an opened numbered cell that still carries its flag  *)
C13_Witness ==
  /\ Started(board)
  /\ \E p \in Positions(board) :
       /\ board.cells[p].isOpened /\ board.cells[p].isFlagged
       /\ board.cells[p].adjacentMines > 0

(* C14: in a started game (startGame has returned without an error) every   *)
(* cell that is not a mine has as adjacentMines the number of mines among   *)
(* its in-bounds neighbours, and every mine has adjacentMines 0.           *)
C14_AdjacentMinesCountsNeighbours ==
  Started(board) =>
    \A p \in Positions(board) :
      IF board.cells[p].isMine
        THEN board.cells[p].adjacentMines = 0
        ELSE board.cells[p].adjacentMines =
               Cardinality(getAdjacentCells(board, p[1], p[2]) \cap MinedCells(board))

(* a game just started with two mines that share a neighbour, and a cell    *)
(* without a mine next to it                                               *)
C14_Witness ==
  /\ Started(board) /\ board.openedCells = 0 /\ board.flags = 0
  /\ Cardinality(MinedCells(board)) = 2
  /\ \E p \in Positions(board) : board.cells[p].adjacentMines = 2
  /\ \E q \in Positions(board) : ~board.cells[q].isMine /\ board.cells[q].adjacentMines = 0

(* C15: in a started game no openCell and no toggleFlag call, on any cell   *)
(* or coordinate, changes isMine or adjacentMines of any cell; the flood    *)
(* fill and the reveal of all mines are part of openCell.                  *)
C15_MinesAndCountsAreFixed ==
  Started(board) =>
    \A p \in Coordinates(board) :
      LET opened == openCell(board, p[1], p[2], now)
          flagged == toggleFlag(board, p[1], p[2])
      IN  \A q \in Positions(board) :
            /\ opened.cells[q].isMine = board.cells[q].isMine
            /\ opened.cells[q].adjacentMines = board.cells[q].adjacentMines
            /\ flagged.cells[q].isMine = board.cells[q].isMine
            /\ flagged.cells[q].adjacentMines = board.cells[q].adjacentMines

(* a lost game: the mines were revealed next to an opened numbered cell,    *)
(* with a flag on the board                                                *)
C15_Witness ==
  /\ Started(board) /\ board.isGameOver /\ board.flags > 0
  /\ \E p \in OpenedCells(board) : ~board.cells[p].isMine /\ board.cells[p].adjacentMines > 0
  /\ \E q \in OpenedCells(board) : board.cells[q].isMine

(* C16: in a started game no openCell and no toggleFlag call, on any cell   *)
(* or coordinate, leaves an opened cell unopened; so isOpened only goes     *)
(* from false to true until the next reset or startGame.                   *)
C16_OpenedStaysOpened ==
  Started(board) =>
    \A p \in Coordinates(board) :
      LET opened == openCell(board, p[1], p[2], now)
          flagged == toggleFlag(board, p[1], p[2])
      IN  \A q \in OpenedCells(board) :
            opened.cells[q].isOpened /\ flagged.cells[q].isOpened

(* a started game not yet ended with opened cells, one of them still        *)
(* flagged, and a cell left to open                                        *)
C16_Witness ==
  /\ Started(board) /\ ~Ended(board)
  /\ Cardinality(OpenedCells(board)) >= 2
  /\ \E p \in OpenedCells(board) : board.cells[p].isFlagged
  /\ \E q \in Positions(board) : ~board.cells[q].isMine /\ ~board.cells[q].isOpened

(* the board reset() must leave: every cell a default CellState and every   *)
(* counter, flag and timestamp cleared                                     *)
IsCleared(b) ==
  /\ \A p \in Positions(b) :
       /\ ~b.cells[p].isMine /\ ~b.cells[p].isOpened /\ ~b.cells[p].isFlagged
       /\ b.cells[p].adjacentMines = 0
       /\ b.cells[p].currentState = UNOPENED
  /\ b.minesList = {}
  /\ b.flags = 0 /\ b.openedCells = 0
  /\ ~b.isGameOver /\ ~b.isGameWon
  /\ b.startTime = Null /\ b.endTime = Null

(* C17: from every reachable state reset() leaves the cleared board of the  *)
(* same size and mine count, and startGame on any cell, whatever mine       *)
(* placement chooses, leaves a board with no cell opened or flagged, both   *)
(* counters 0 and the game not ended.                                      *)
C17_ResetClearsEverything ==
  /\ LET cleared == reset(board)
     IN  /\ IsCleared(cleared)
         /\ DOMAIN cleared.cells = Positions(board)
         /\ cleared.rows = board.rows /\ cleared.cols = board.cols
         /\ cleared.mines = board.mines
  /\ \A c \in startGameChoices(board) :
       LET after == startGame(board, c.initial[1], c.initial[2], c.mineCells, now)
       IN  /\ \A p \in Positions(board) :
                ~after.cells[p].isOpened /\ ~after.cells[p].isFlagged
           /\ after.flags = 0 /\ after.openedCells = 0
           /\ ~after.isGameOver /\ ~after.isGameWon
           /\ after.endTime = Null

(* a lost game with a flag set, cells opened and mines revealed: every      *)
(* field reset() clears is set                                             *)
C17_Witness ==
  /\ Started(board) /\ board.isGameOver /\ board.endTime # Null
  /\ board.flags > 0 /\ board.openedCells > 0
  /\ board.minesList # {}
  /\ \E p \in Positions(board) : board.cells[p].isFlagged
  /\ \E q \in Positions(board) : board.cells[q].adjacentMines > 0

(* C18: every openCell call, from every reachable state and on every cell   *)
(* or coordinate, returns: the calls of openCell and #openAdjacentCells     *)
(* inside it come to an end within nine steps for every cell the call       *)
(* opens; openedCells grows by one for every cell newly opened, each cell   *)
(* once, which is at most rows*cols openings.                              *)
C18_OpenCellTerminates ==
  \A p \in Coordinates(board) :
    LET entered == enterOpenCell([ board |-> board, stack |-> << >> ], p[1], p[2], now)
        after == openCell(board, p[1], p[2], now)
        newly == (OpenedCells(after) \ OpenedCells(board)) \ MinedCells(after)
    IN  /\ runOpenCell(entered, MaxSteps(board), now).stack = << >>
        /\ runOpenCell(entered, 9 * Cardinality(newly), now).stack = << >>
        /\ after.openedCells - board.openedCells = Cardinality(newly)
        /\ Cardinality(newly) <= board.rows * board.cols

(* a game in which one call has opened four cells or more through two       *)
(* cells without adjacent mines, with cells left to open                   *)
C18_Witness ==
  /\ Started(board) /\ ~Ended(board)
  /\ board.openedCells >= 4
  /\ Cardinality({ p \in OpenedCells(board) : board.cells[p].adjacentMines = 0 }) >= 2

(* C19: isGameOver and isGameWon are never both true, in any state reached  *)
(* by reset, startGame, openCell and toggleFlag calls.                     *)
C19_NeverWonAndLost ==
  ~(board.isGameOver /\ board.isGameWon)

(* a won game whose mines are all unopened and unflagged: openCell on one   *)
(* of them would lose a game not yet ended                                 *)
C19_Witness ==
  /\ Started(board) /\ board.isGameWon
  /\ Cardinality(MinedCells(board)) = 2
  /\ \A p \in MinedCells(board) : ~board.cells[p].isOpened /\ ~board.cells[p].isFlagged

(* C20, as claimed: in every state, the states before any startGame         *)
(* included, openedCells is at most rows*cols - mines, and when every cell  *)
(* is opened the game is won or lost.                                      *)
C20_OpenedCountWithinSafeCells ==
  /\ board.openedCells <= board.rows * board.cols - board.mines
  /\ OpenedCells(board) = Positions(board) => Ended(board)

(* C21, as claimed: getGameInfo reports 0 elapsed seconds whenever the game  *)
(* has not been started, and once the game is lost or won the elapsed       *)
(* seconds it reports stay the same while the clock advances and the board  *)
(* is not reset or restarted.                                              *)
C21_TimerStopsWhenEnded ==
  /\ [] (~Started(board) => getGameInfo(board, now).stats.gameTimeInSecond = 0)
  /\ [][ (Ended(board) /\ board' = board)
           => getGameInfo(board', now').stats.gameTimeInSecond
                = getGameInfo(board, now).stats.gameTimeInSecond ]_vars

(* the cells whose isFlagged is true *)
FlaggedCells(b) == { p \in Positions(b) : b.cells[p].isFlagged }

(* C22: in every reachable state flags is the number of cells with          *)
(* isFlagged, also after a flagged cell was opened and after flagged mines  *)
(* were revealed; so flags >= 0, and the remaining mines, mines - flags,    *)
(* are negative only with more cells flagged than there are mines.         *)
C22_FlagsCountFlaggedCells ==
  /\ board.flags = Cardinality(FlaggedCells(board))
  /\ board.flags >= 0
  /\ getRemainingMines(board) = board.mines - board.flags
  /\ getRemainingMines(board) < 0 => Cardinality(FlaggedCells(board)) > board.mines

(* a started game on a board without mines in which the flagged cell was    *)
(* opened: the remaining mines are negative                                *)
C22_Witness ==
  /\ Started(board)
  /\ getRemainingMines(board) < 0
  /\ \E p \in FlaggedCells(board) : board.cells[p].isOpened
====
